---- MODULE Spec2Model ----
(***************************************************************************)
(* Trip Recording Engine of the Express Rider app.                         *)
(*                                                                         *)
(* The model covers the trip screen (initializeTrip, handleLocationUpdate, *)
(* handleEndTrip / endTripConfirmed, loadTripState), the GPSService        *)
(* singleton (startTracking, stopTracking, backgroundTask,                 *)
(* getCurrentLocationWithRetry), the AsyncStorage wrapper and the Trip     *)
(* API.                                                                    *)
(*                                                                         *)
(* Collaborators:                                                          *)
(*  - AsyncStorage executes its operations in the order they were issued.  *)
(*    A fire-and-forget saveCoordinates is a pending write; an awaited     *)
(*    operation takes effect once every earlier write has completed.       *)
(*    Only the write of the coordinate array may fail (PersistenceError);  *)
(*    reads and removes are reliable.                                      *)
(*  - The location provider answers every request with a fix or with an    *)
(*    error code 1 (permission denied), 2 (unavailable), 3 (timeout) or    *)
(*    another code; a one-shot request may return a cached position, so    *)
(*    the timestamp of a fix is not tied to the order of delivery.         *)
(*  - BackgroundService.start / stop may reject.                           *)
(*  - A process kill loses all in-memory state and every pending write.    *)
(***************************************************************************)
EXTENDS Integers, Sequences, FiniteSets, TLC

(***************************************************************************)
(* Bounds of the exploration.                                              *)
(***************************************************************************)
MaxFixes == 2
MaxTs == 2
MaxPending == 1
MaxRestarts == 1
MaxCoords == 3
MaxDelaySteps == 4
MaxStarts == 2
MaxStops == 2
MaxAppends == 2

(***************************************************************************)
(* Program constants.                                                      *)
(***************************************************************************)
maxRetries == 3
GPS_TRACKING_INTERVAL == 60000
EARTH_RADIUS_KM == 6371
\* EARTH_RADIUS_KM * (PI / 180) in units of 0.0001 km: 111.1949 km per degree
KmE4PerDegree == 1111949

None == [none |-> TRUE]

(***************************************************************************)
(* Fixes.  A fix of the system model lies on the equator; its longitude    *)
(* (whole degrees) is tied to its timestamp so that a fix is identified by *)
(* its capture time.                                                       *)
(***************************************************************************)
Fix(t) == [latitude |-> 0, longitude |-> t - 1, timestamp |-> t]
Fixes == {Fix(t) : t \in 1..MaxTs}

\* Math.abs
Abs(x) == IF x < 0 THEN 0 - x ELSE x

(***************************************************************************)
(* JavaScript values.  A number is a whole number (degrees, hundredths of  *)
(* a kilometre), NaN or Infinity; a property may also hold null.  The      *)
(* three are represented by integers outside the range of every finite     *)
(* value the model computes with.                                          *)
(***************************************************************************)
NaN == 2000000001
Infinity == 2000000002
null == 2000000003

\* typeof v === 'number'
IsNumber(v) == v # null

\* Number.isFinite(v)
IsFiniteNumber(v) == v \notin {NaN, Infinity, null}

\* a === b on numbers: NaN equals nothing, itself included
StrictEquals(a, b) == a # NaN /\ b # NaN /\ a = b

\* a + b on numbers that are finite or NaN
Plus(a, b) == IF a = NaN \/ b = NaN THEN NaN ELSE a + b

(***************************************************************************)
(* Distance Aggregator (haversine.js).  Distances are integers in          *)
(* hundredths of a kilometre; the unrounded great-circle distance is in    *)
(* units of 0.0001 km.  For two points on the equator, or on one meridian, *)
(* the haversine formula reduces to R * |delta| * PI / 180, which          *)
(* KmE4PerDegree renders exactly enough for a few degrees.  For the other  *)
(* pairs of the coordinates explored, GreatCircleE4 holds the value the    *)
(* formula of calculateDistance yields in double arithmetic, computed for  *)
(* each ordered pair on its own.                                           *)
(***************************************************************************)
\* Math.round(x * 100) / 100 for x given in units of 0.0001 km (x >= 0)
Round2(xE4) == IF xE4 = NaN THEN NaN ELSE (xE4 + 50) \div 100

GreatCircleE4 ==
  <<0, 0, 1, 1>> :> 1572494 @@
  <<0, 0, 91, 1>> :> 101187214 @@
  <<0, 0, 0, 181>> :> 199038919 @@
  <<0, 1, 91, 1>> :> 101187383 @@
  <<0, 1, 0, 181>> :> 200150868 @@
  <<0, 2, 1, 1>> :> 1572494 @@
  <<0, 2, 91, 1>> :> 101187214 @@
  <<0, 2, 0, 181>> :> 199038919 @@
  <<1, 1, 0, 0>> :> 1572494 @@
  <<1, 1, 0, 2>> :> 1572494 @@
  <<1, 1, 91, 1>> :> 100075434 @@
  <<1, 1, 0, 181>> :> 199038919 @@
  <<91, 1, 0, 0>> :> 101187214 @@
  <<91, 1, 0, 1>> :> 101187383 @@
  <<91, 1, 0, 2>> :> 101187214 @@
  <<91, 1, 1, 1>> :> 100075434 @@
  <<91, 1, 0, 181>> :> 98963485 @@
  <<0, 181, 0, 0>> :> 199038919 @@
  <<0, 181, 0, 1>> :> 200150868 @@
  <<0, 181, 0, 2>> :> 199038919 @@
  <<0, 181, 1, 1>> :> 199038919 @@
  <<0, 181, 91, 1>> :> 98963485

\* EARTH_RADIUS_KM * 2 * atan2(sqrt(a), sqrt(1 - a)); a sine or a cosine of
\* NaN or Infinity is NaN, and so is everything computed from it
HaversineE4(coord1, coord2) ==
  LET lat1 == coord1.latitude
      lon1 == coord1.longitude
      lat2 == coord2.latitude
      lon2 == coord2.longitude
      finite == /\ IsFiniteNumber(lat1) /\ IsFiniteNumber(lon1)
                /\ IsFiniteNumber(lat2) /\ IsFiniteNumber(lon2)
      tabled == <<lat1, lon1, lat2, lon2>> \in DOMAIN GreatCircleE4
  IN CASE ~finite -> NaN
       [] finite /\ tabled -> GreatCircleE4[<<lat1, lon1, lat2, lon2>>]
       [] finite /\ ~tabled /\ lon1 = lon2 ->
            Abs(lat2 - lat1) * KmE4PerDegree
       [] finite /\ ~tabled /\ lon1 # lon2 /\ lat1 = 0 /\ lat2 = 0 ->
            Abs(lon2 - lon1) * KmE4PerDegree

\* the return statement calculateDistance leaves by: "null" (a coordinate is
\* missing), "type" (a property is not a number), "same" (same
\* coordinates) or "haversine"
distanceBranchNoShortcut(coord1, coord2) ==
  IF coord1 = None \/ coord2 = None THEN "null"
  ELSE IF \/ ~IsNumber(coord1.latitude) \/ ~IsNumber(coord1.longitude)
          \/ ~IsNumber(coord2.latitude) \/ ~IsNumber(coord2.longitude)
       THEN "type"
  ELSE "haversine"

distanceBranch(coord1, coord2) ==
  IF coord1 = None \/ coord2 = None THEN "null"
  ELSE IF \/ ~IsNumber(coord1.latitude) \/ ~IsNumber(coord1.longitude)
          \/ ~IsNumber(coord2.latitude) \/ ~IsNumber(coord2.longitude)
       THEN "type"
  ELSE IF /\ StrictEquals(coord1.latitude, coord2.latitude)
          /\ StrictEquals(coord1.longitude, coord2.longitude)
       THEN "same"
  ELSE "haversine"

\* a validation that forgets the properties of the second coordinate: a
\* null there is taken for 0 by the arithmetic
calculateDistanceFirstOnly(coord1, coord2) ==
  IF coord1 = None \/ coord2 = None THEN null
  ELSE IF ~IsNumber(coord1.latitude) \/ ~IsNumber(coord1.longitude)
       THEN null
  ELSE Round2(HaversineE4(coord1,
         [coord2 EXCEPT !.latitude = IF @ = null THEN 0 ELSE @,
                        !.longitude = IF @ = null THEN 0 ELSE @]))

calculateDistance(coord1, coord2) ==
  LET branch == distanceBranch(coord1, coord2)
  IN CASE branch \in {"null", "type"} -> null
       [] branch = "same" -> 0
       [] branch = "haversine" -> Round2(HaversineE4(coord1, coord2))

\* the loop of calculateTotalDistance from index i on: a null distance is
\* left out, any other is added
RECURSIVE SumSegments(_, _)
SumSegments(coordinates, i) ==
  IF i >= Len(coordinates) THEN 0
  ELSE LET distance == calculateDistance(coordinates[i], coordinates[i + 1])
           rest == SumSegments(coordinates, i + 1)
       IN IF distance # null THEN Plus(distance, rest) ELSE rest

\* the sum of two-decimal numbers rounded to two decimals again
calculateTotalDistance(coordinates) ==
  IF Len(coordinates) < 2 THEN 0 ELSE SumSegments(coordinates, 1)

calculateTripDistance(coordinates) ==
  IF Len(coordinates) < 2 THEN 0 ELSE calculateTotalDistance(coordinates)

VARIABLES
  gps,            \* the GPSService singleton
  bgRunning,      \* BackgroundService.isRunning()
  bgPc,           \* position of backgroundTask: "none", "acquire", "sleep"
  acq,            \* the getCurrentLocationWithRetry chain in flight
  ui,             \* React state of TripTrackingScreen
  initPc,         \* position of initializeTrip
  endPc,          \* position of handleEndTrip / endTripConfirmed
  alert,          \* state captured by the closure of the End Trip dialog
  loadedCoords,   \* loadTripState: the awaited result of getCoordinates
  storage,        \* AsyncStorage: TRIP_DATA and COORDINATES
  pendingWrites,  \* coordinate arrays handed to saveCoordinates, not yet written
  api,            \* the Trip API: trips started and trips ended so far
  appState,       \* AppState.currentState
  restarts,       \* process kills so far
  sessionPath     \* "none", "resume" or "new": branch taken by initializeTrip

vars == <<gps, bgRunning, bgPc, acq, ui, initPc, endPc, alert, loadedCoords,
          storage, pendingWrites, api, appState, restarts, sessionPath>>

\* GPSService constructor
GpsInit == [isInitialized |-> FALSE, isTracking |-> FALSE,
            locationCallback |-> FALSE, watchId |-> FALSE,
            backgroundTaskRunning |-> FALSE, lastLocation |-> None,
            lastLocationFresh |-> FALSE, appState |-> "active",
            appStateSubscription |-> FALSE]

\* useState initial values of TripTrackingScreen
UiInit == [tripId |-> 0, distance |-> 0, coordinates |-> <<>>,
           isTracking |-> FALSE, gpsStatus |-> "Initializing...",
           isEnding |-> FALSE]

AcqIdle == [owner |-> "none", retryCount |-> 0]
NotLoading == [awaited |-> FALSE, savedCoords |-> <<>>]
AlertNone == [coordinates |-> <<>>, distance |-> 0]

\* state of a freshly launched process with the trip screen mounted
FreshProcess ==
  /\ gps = GpsInit
  /\ bgRunning = FALSE
  /\ bgPc = "none"
  /\ acq = AcqIdle
  /\ ui = UiInit
  /\ initPc = "getTripData"
  /\ endPc = "none"
  /\ alert = AlertNone
  /\ loadedCoords = NotLoading
  /\ pendingWrites = <<>>
  /\ appState = "active"
  /\ sessionPath = "none"

Init ==
  /\ FreshProcess
  /\ storage = [tripData |-> 0, coordinates |-> <<>>]
  /\ api = [tripsStarted |-> 0, tripsEnded |-> 0]
  /\ restarts = 0

(***************************************************************************)
(* TripTrackingScreen.handleLocationUpdate: the single ingestion point.    *)
(* The fix is appended to the React state, the running distance is         *)
(* recomputed and saveCoordinates is called without being awaited.         *)
(***************************************************************************)
CanIngest == Len(ui.coordinates) < MaxFixes /\ Len(pendingWrites) < MaxPending

handleLocationUpdate(u, location) ==
  LET coord == [latitude |-> location.latitude,
                longitude |-> location.longitude,
                timestamp |-> location.timestamp]
      updatedCoords == Append(u.coordinates, coord)
  IN /\ ui' = [u EXCEPT !.coordinates = updatedCoords,
                        !.distance = IF Len(updatedCoords) > 1
                                     THEN calculateTripDistance(updatedCoords)
                                     ELSE @,
                        !.gpsStatus = "GPS Active"]
     /\ pendingWrites' = Append(pendingWrites, updatedCoords)

\* if (this.locationCallback) this.locationCallback(location)
InvokeCallback(g, location) ==
  IF g.locationCallback
  THEN CanIngest /\ handleLocationUpdate(ui, location)
  ELSE UNCHANGED <<ui, pendingWrites>>

(***************************************************************************)
(* AsyncStorage: completion of a pending saveCoordinates.                  *)
(***************************************************************************)
SaveCoordinatesDone ==
  /\ pendingWrites # <<>>
  /\ storage' = [storage EXCEPT !.coordinates = Head(pendingWrites)]
  /\ pendingWrites' = Tail(pendingWrites)
  /\ UNCHANGED <<gps, bgRunning, bgPc, acq, ui, initPc, endPc, alert,
                 loadedCoords, api, appState, restarts, sessionPath>>

\* setItem rejects: saveCoordinates logs the error and returns false
SaveCoordinatesFails ==
  /\ pendingWrites # <<>>
  /\ pendingWrites' = Tail(pendingWrites)
  /\ UNCHANGED <<gps, bgRunning, bgPc, acq, ui, initPc, endPc, alert,
                 loadedCoords, storage, api, appState, restarts,
                 sessionPath>>

(***************************************************************************)
(* TripTrackingScreen.initializeTrip                                       *)
(***************************************************************************)
\* const existingTrip = await getTripData()
GetTripData ==
  /\ initPc = "getTripData"
  /\ pendingWrites = <<>>
  /\ IF storage.tripData # 0
     THEN /\ ui' = [ui EXCEPT !.tripId = storage.tripData]
          /\ sessionPath' = "resume"
          /\ initPc' = "getCoordinates"
     ELSE /\ ui' = [ui EXCEPT !.gpsStatus = "Starting new trip..."]
          /\ sessionPath' = "new"
          /\ initPc' = "startTrip"
  /\ UNCHANGED <<gps, bgRunning, bgPc, acq, endPc, alert, loadedCoords,
                 storage, pendingWrites, api, appState, restarts>>

\* resume path: load the saved coordinates and recompute the distance
ResumeTrip ==
  /\ initPc = "getCoordinates"
  /\ pendingWrites = <<>>
  /\ LET savedCoords == storage.coordinates
     IN ui' = [ui EXCEPT !.coordinates = savedCoords,
                         !.distance = IF Len(savedCoords) > 0
                                      THEN calculateTripDistance(savedCoords)
                                      ELSE @,
                         !.gpsStatus = "Resuming trip..."]
  /\ initPc' = "initialize"
  /\ UNCHANGED <<gps, bgRunning, bgPc, acq, endPc, alert, loadedCoords,
                 storage, pendingWrites, api, appState, restarts,
                 sessionPath>>

\* const response = await startTrip(storedRiderId), response.success
StartTripSuccess ==
  /\ initPc = "startTrip"
  /\ api' = [api EXCEPT !.tripsStarted = @ + 1]
  /\ ui' = [ui EXCEPT !.tripId = api.tripsStarted + 1]
  /\ initPc' = "saveTripData"
  /\ UNCHANGED <<gps, bgRunning, bgPc, acq, endPc, alert, loadedCoords,
                 storage, pendingWrites, appState, restarts, sessionPath>>

\* !response.success: throw, caught by initializeTrip
StartTripFailure ==
  /\ initPc = "startTrip"
  /\ ui' = [ui EXCEPT !.gpsStatus = "GPS Error"]
  /\ initPc' = "failed"
  /\ UNCHANGED <<gps, bgRunning, bgPc, acq, endPc, alert, loadedCoords,
                 storage, pendingWrites, api, appState, restarts,
                 sessionPath>>

\* await saveTripData({trip_id, rider_id, start_time, status: 'active'})
SaveTripData ==
  /\ initPc = "saveTripData"
  /\ pendingWrites = <<>>
  /\ storage' = [storage EXCEPT !.tripData = ui.tripId]
  /\ initPc' = "clearCoordinates"
  /\ UNCHANGED <<gps, bgRunning, bgPc, acq, ui, endPc, alert, loadedCoords,
                 pendingWrites, api, appState, restarts, sessionPath>>

\* await clearCoordinates(): clear any old coordinates
ClearOldCoordinates ==
  /\ initPc = "clearCoordinates"
  /\ pendingWrites = <<>>
  /\ storage' = [storage EXCEPT !.coordinates = <<>>]
  /\ initPc' = "initialize"
  /\ UNCHANGED <<gps, bgRunning, bgPc, acq, ui, endPc, alert, loadedCoords,
                 pendingWrites, api, appState, restarts, sessionPath>>

(***************************************************************************)
(* GPSService.initialize: registers the AppState listener, then asks for   *)
(* the permissions and checks the location services.                       *)
(***************************************************************************)
initialize(g, ok) ==
  IF g.isInitialized THEN g
  ELSE [g EXCEPT !.appStateSubscription = TRUE,
                 !.isInitialized = ok]

\* await gpsService.initialize() of initializeTrip (result not inspected)
GpsInitialize ==
  /\ initPc = "initialize"
  /\ \E ok \in BOOLEAN : gps' = initialize(gps, ok)
  /\ initPc' = "startTracking"
  /\ UNCHANGED <<bgRunning, bgPc, acq, ui, endPc, alert, loadedCoords,
                 storage, pendingWrites, api, appState, restarts,
                 sessionPath>>

\* what initializeTrip does after `await gpsService.startTracking(...)`
TrackingReported(u) ==
  [u EXCEPT !.isTracking = TRUE, !.gpsStatus = "GPS Active"]

(***************************************************************************)
(* GPSService.startTracking, up to the request of the initial fix.         *)
(***************************************************************************)
StartTracking ==
  /\ initPc = "startTracking"
  /\ \E ok \in BOOLEAN :
       LET g == initialize(gps, ok)
       IN IF ~g.isInitialized
          THEN \* throw 'Failed to initialize GPS service'; catch: return false
               /\ gps' = [g EXCEPT !.isTracking = FALSE]
               /\ ui' = TrackingReported(ui)
               /\ initPc' = "done"
               /\ acq' = acq
          ELSE /\ gps' = [g EXCEPT !.locationCallback = TRUE]
               /\ acq' = [owner |-> "initial", retryCount |-> 0]
               /\ initPc' = "initialFix"
               /\ ui' = ui
  /\ UNCHANGED <<bgRunning, bgPc, endPc, alert, loadedCoords, storage,
                 pendingWrites, api, appState, restarts, sessionPath>>

(***************************************************************************)
(* GPSService.getCurrentLocationWithRetry                                  *)
(***************************************************************************)
\* a profile without backoff: every retry asks as attempt 0 did
settingsNoBackoff(retryCount, isBackground) ==
  IF isBackground
  THEN [timeout |-> 30000, maximumAge |-> 120000,
        enableHighAccuracy |-> FALSE]
  ELSE [timeout |-> 20000, maximumAge |-> 10000,
        enableHighAccuracy |-> FALSE]

\* the options getCurrentLocationWithRetry passes to getCurrentPosition
settings(retryCount, isBackground) ==
  IF isBackground
  THEN [timeout |-> IF retryCount = 0 THEN 30000
                    ELSE 45000 + (retryCount * 15000),
        maximumAge |-> IF retryCount = 0 THEN 120000 ELSE 300000,
        enableHighAccuracy |-> FALSE]
  ELSE [timeout |-> IF retryCount = 0 THEN 20000
                    ELSE 30000 + (retryCount * 15000),
        maximumAge |-> IF retryCount = 0 THEN 10000
                       ELSE 60000 + (retryCount * 30000),
        enableHighAccuracy |-> FALSE]

\* what the error callback does with a provider error:
\* "cached": resolve(this.lastLocation); "retry": call itself with
\* retryCount + 1; "disabled": reject {code: 2, shouldPrompt: true};
\* "denied": reject {code: 1, shouldPrompt: true}; "exhausted": reject
\* {code: 3}; "error": reject(error)

\* an error callback that retries an unknown error without a ceiling
onLocationErrorUnbounded(code, retryCount, isBackground, g) ==
  CASE code = 2 -> IF retryCount = 0 THEN "disabled" ELSE "error"
    [] code = 3 ->
         IF isBackground /\ g.lastLocation # None /\ g.lastLocationFresh
         THEN "cached"
         ELSE IF retryCount < maxRetries THEN "retry"
         ELSE IF g.lastLocation # None THEN "cached"
         ELSE "exhausted"
    [] code = 1 -> "denied"
    [] OTHER -> "retry"

\* an error callback without the background short-circuit on a timeout
onLocationErrorNoShortCircuit(code, retryCount, isBackground, g) ==
  CASE code = 2 -> IF retryCount = 0 THEN "disabled" ELSE "error"
    [] code = 3 ->
         IF retryCount < maxRetries THEN "retry"
         ELSE IF g.lastLocation # None THEN "cached"
         ELSE "exhausted"
    [] code = 1 -> "denied"
    [] OTHER -> IF retryCount < maxRetries THEN "retry" ELSE "error"

\* an error callback that answers a denied permission with the cached fix
onLocationErrorDeniedCached(code, retryCount, isBackground, g) ==
  CASE code = 2 -> IF retryCount = 0 THEN "disabled" ELSE "error"
    [] code = 3 ->
         IF isBackground /\ g.lastLocation # None /\ g.lastLocationFresh
         THEN "cached"
         ELSE IF retryCount < maxRetries THEN "retry"
         ELSE IF g.lastLocation # None THEN "cached"
         ELSE "exhausted"
    [] code = 1 -> IF g.lastLocation # None THEN "cached" ELSE "denied"
    [] OTHER -> IF retryCount < maxRetries THEN "retry" ELSE "error"

\* an error callback that retries when the provider is unavailable
onLocationErrorUnavailableRetried(code, retryCount, isBackground, g) ==
  CASE code = 2 -> IF retryCount < maxRetries THEN "retry" ELSE "error"
    [] code = 3 ->
         IF isBackground /\ g.lastLocation # None /\ g.lastLocationFresh
         THEN "cached"
         ELSE IF retryCount < maxRetries THEN "retry"
         ELSE IF g.lastLocation # None THEN "cached"
         ELSE "exhausted"
    [] code = 1 -> "denied"
    [] OTHER -> IF retryCount < maxRetries THEN "retry" ELSE "error"

\* an error callback whose short-circuit on a timeout does not ask for the
\* Background mode
onLocationErrorAnyModeShortCircuit(code, retryCount, isBackground, g) ==
  CASE code = 2 -> IF retryCount = 0 THEN "disabled" ELSE "error"
    [] code = 3 ->
         IF g.lastLocation # None /\ g.lastLocationFresh
         THEN "cached"
         ELSE IF retryCount < maxRetries THEN "retry"
         ELSE IF g.lastLocation # None THEN "cached"
         ELSE "exhausted"
    [] code = 1 -> "denied"
    [] OTHER -> IF retryCount < maxRetries THEN "retry" ELSE "error"

onLocationError(code, retryCount, isBackground, g) ==
  CASE code = 2 -> IF retryCount = 0 THEN "disabled" ELSE "error"
    [] code = 3 ->
         IF isBackground /\ g.lastLocation # None /\ g.lastLocationFresh
         THEN "cached"
         ELSE IF retryCount < maxRetries THEN "retry"
         ELSE IF g.lastLocation # None THEN "cached"
         ELSE "exhausted"
    [] code = 1 -> "denied"
    [] OTHER -> IF retryCount < maxRetries THEN "retry" ELSE "error"

\* the promise resolves with `location`; g is the service after the callback
AcquisitionResolves(g, location) ==
  /\ acq' = AcqIdle
  /\ IF acq.owner = "initial"
     THEN \* startTracking: deliver the initial fix, register the watch,
          \* call BackgroundService.start
          /\ InvokeCallback(g, location)
          /\ gps' = [g EXCEPT !.watchId = TRUE]
          /\ initPc' = "backgroundStart"
          /\ bgPc' = bgPc
     ELSE \* backgroundTask: deliver and sleep
          /\ InvokeCallback(g, location)
          /\ gps' = g
          /\ bgPc' = "sleep"
          /\ initPc' = initPc

\* a backgroundTask without the try/catch inside its loop: a rejection
\* ends the task
AcquisitionRejectsEndsLoop ==
  /\ acq' = AcqIdle
  /\ IF acq.owner = "initial"
     THEN /\ gps' = [gps EXCEPT !.isTracking = FALSE]
          /\ ui' = TrackingReported(ui)
          /\ initPc' = "done"
          /\ bgPc' = bgPc
     ELSE /\ gps' = gps
          /\ ui' = ui
          /\ bgPc' = "none"
          /\ initPc' = initPc
  /\ pendingWrites' = pendingWrites

\* the promise rejects
AcquisitionRejects ==
  /\ acq' = AcqIdle
  /\ IF acq.owner = "initial"
     THEN \* startTracking shows a prompt, rethrows, catches: return false
          /\ gps' = [gps EXCEPT !.isTracking = FALSE]
          /\ ui' = TrackingReported(ui)
          /\ initPc' = "done"
          /\ bgPc' = bgPc
     ELSE \* backgroundTask logs the error and continues
          /\ gps' = gps
          /\ ui' = ui
          /\ bgPc' = "sleep"
          /\ initPc' = initPc
  /\ pendingWrites' = pendingWrites

\* Geolocation.getCurrentPosition succeeds
ProviderFix ==
  /\ acq.owner # "none"
  /\ \E location \in Fixes :
       AcquisitionResolves([gps EXCEPT !.lastLocation = location,
                                       !.lastLocationFresh = TRUE],
                           location)
  /\ UNCHANGED <<bgRunning, endPc, alert, loadedCoords, storage, api,
                 appState, restarts, sessionPath>>

\* Geolocation.getCurrentPosition fails with error.code
ProviderError ==
  /\ acq.owner # "none"
  /\ \E code \in 1..4 :
       LET outcome == onLocationError(code, acq.retryCount,
                                      acq.owner = "background", gps)
       IN CASE outcome = "cached" ->
                 AcquisitionResolves(gps, gps.lastLocation)
            [] outcome = "retry" ->
                 /\ acq' = [acq EXCEPT !.retryCount = @ + 1]
                 /\ UNCHANGED <<gps, ui, initPc, bgPc, pendingWrites>>
            [] OTHER -> AcquisitionRejects
  /\ UNCHANGED <<bgRunning, endPc, alert, loadedCoords, storage, api,
                 appState, restarts, sessionPath>>

\* the cached fix grows older than 10 minutes
LastLocationAges ==
  /\ gps.lastLocation # None
  /\ gps.lastLocationFresh
  /\ gps' = [gps EXCEPT !.lastLocationFresh = FALSE]
  /\ UNCHANGED <<bgRunning, bgPc, acq, ui, initPc, endPc, alert,
                 loadedCoords, storage, pendingWrites, api, appState,
                 restarts, sessionPath>>

(***************************************************************************)
(* GPSService.startTracking, after the watch was registered:               *)
(* await BackgroundService.start(this.backgroundTask, options)             *)
(***************************************************************************)
BackgroundStartSuccess ==
  /\ initPc = "backgroundStart"
  /\ bgRunning' = TRUE
  /\ bgPc' = "acquire"
  /\ acq' = [owner |-> "background", retryCount |-> 0]
  /\ gps' = [gps EXCEPT !.backgroundTaskRunning = TRUE, !.isTracking = TRUE]
  /\ ui' = TrackingReported(ui)
  /\ initPc' = "done"
  /\ UNCHANGED <<endPc, alert, loadedCoords, storage, pendingWrites, api,
                 appState, restarts, sessionPath>>

\* BackgroundService.start rejects: catch, isTracking = false, return false
BackgroundStartFailure ==
  /\ initPc = "backgroundStart"
  /\ gps' = [gps EXCEPT !.isTracking = FALSE]
  /\ ui' = TrackingReported(ui)
  /\ initPc' = "done"
  /\ UNCHANGED <<bgRunning, bgPc, acq, endPc, alert, loadedCoords, storage,
                 pendingWrites, api, appState, restarts, sessionPath>>

(***************************************************************************)
(* The foreground watch: callback of Geolocation.watchPosition             *)
(***************************************************************************)
WatchFix ==
  /\ gps.watchId
  /\ \E location \in Fixes :
       LET g == [gps EXCEPT !.lastLocation = location,
                            !.lastLocationFresh = TRUE]
       IN /\ InvokeCallback(g, location)
          /\ gps' = g
  /\ UNCHANGED <<bgRunning, bgPc, acq, initPc, endPc, alert, loadedCoords,
                 storage, api, appState, restarts, sessionPath>>

(***************************************************************************)
(* GPSService.backgroundTask: after the sleep, test                        *)
(* BackgroundService.isRunning() and acquire again or leave the loop.      *)
(***************************************************************************)
BackgroundTaskWakes ==
  /\ bgPc = "sleep"
  /\ acq.owner = "none"
  /\ IF bgRunning
     THEN /\ bgPc' = "acquire"
          /\ acq' = [owner |-> "background", retryCount |-> 0]
     ELSE /\ bgPc' = "none"
          /\ acq' = acq
  /\ UNCHANGED <<gps, bgRunning, ui, initPc, endPc, alert, loadedCoords,
                 storage, pendingWrites, api, appState, restarts,
                 sessionPath>>

(***************************************************************************)
(* TripTrackingScreen.handleEndTrip / endTripConfirmed                     *)
(***************************************************************************)
\* <Button title="End Trip" disabled={isEnding || !isTracking} />
EndTripEnabled == ~ui.isEnding /\ ui.isTracking

\* handleEndTrip: the dialog keeps the endTripConfirmed of this render, with
\* the coordinates and the distance of this render
handleEndTrip ==
  /\ EndTripEnabled
  /\ endPc \in {"none", "failed"}
  /\ alert' = [coordinates |-> ui.coordinates, distance |-> ui.distance]
  /\ endPc' = "alert"
  /\ UNCHANGED <<gps, bgRunning, bgPc, acq, ui, initPc, loadedCoords,
                 storage, pendingWrites, api, appState, restarts,
                 sessionPath>>

\* the rider presses Cancel
CancelEndTrip ==
  /\ endPc = "alert"
  /\ endPc' = "none"
  /\ alert' = AlertNone
  /\ UNCHANGED <<gps, bgRunning, bgPc, acq, ui, initPc, loadedCoords,
                 storage, pendingWrites, api, appState, restarts,
                 sessionPath>>

\* endTripConfirmed up to `await gpsService.stopTracking()`, and
\* GPSService.stopTracking up to `await BackgroundService.stop()`
EndTripConfirmed ==
  /\ endPc = "alert"
  /\ IF ~gps.isTracking
     THEN \* stopTracking: 'GPS tracking is not active', return true
          /\ gps' = gps
          /\ ui' = [ui EXCEPT !.isEnding = TRUE, !.isTracking = FALSE,
                              !.gpsStatus = "Ending trip..."]
          /\ endPc' = "submitting"
     ELSE /\ gps' = [gps EXCEPT !.watchId = FALSE]
          /\ ui' = [ui EXCEPT !.isEnding = TRUE,
                              !.gpsStatus = "Ending trip..."]
          /\ endPc' = "stopping"
  /\ UNCHANGED <<bgRunning, bgPc, acq, initPc, alert, loadedCoords, storage,
                 pendingWrites, api, appState, restarts, sessionPath>>

\* BackgroundService.stop resolves: stopTracking clears the callback and
\* returns true; endTripConfirmed builds tripData and calls endTrip
BackgroundStopSuccess ==
  /\ endPc = "stopping"
  /\ bgRunning' = FALSE
  /\ gps' = [gps EXCEPT !.backgroundTaskRunning = FALSE,
                        !.locationCallback = FALSE,
                        !.isTracking = FALSE]
  /\ ui' = [ui EXCEPT !.isTracking = FALSE]
  /\ endPc' = "submitting"
  /\ UNCHANGED <<bgPc, acq, initPc, alert, loadedCoords, storage,
                 pendingWrites, api, appState, restarts, sessionPath>>

\* BackgroundService.stop rejects: stopTracking catches and returns false;
\* endTripConfirmed does not inspect the result
BackgroundStopFailure ==
  /\ endPc = "stopping"
  /\ ui' = [ui EXCEPT !.isTracking = FALSE]
  /\ endPc' = "submitting"
  /\ UNCHANGED <<gps, bgRunning, bgPc, acq, initPc, alert, loadedCoords,
                 storage, pendingWrites, api, appState, restarts,
                 sessionPath>>

\* the request of endTripConfirmed: built from the state of the render the
\* dialog was opened in
tripData == [trip_id |-> ui.tripId,
             total_distance |-> alert.distance,
             coordinates |-> alert.coordinates]

\* api.endTrip returns {success: true}
EndTripSuccess ==
  /\ endPc = "submitting"
  /\ api' = [api EXCEPT !.tripsEnded = @ + 1]
  /\ endPc' = "clearTripData"
  /\ UNCHANGED <<gps, bgRunning, bgPc, acq, ui, initPc, alert, loadedCoords,
                 storage, pendingWrites, appState, restarts, sessionPath>>

\* a failure branch that clears the storage as the success branch does
EndTripFailureClears ==
  /\ endPc = "submitting"
  /\ ui' = [ui EXCEPT !.isEnding = FALSE]
  /\ storage' = [tripData |-> 0, coordinates |-> <<>>]
  /\ endPc' = "failed"
  /\ UNCHANGED <<gps, bgRunning, bgPc, acq, initPc, alert, loadedCoords,
                 pendingWrites, api, appState, restarts, sessionPath>>

\* api.endTrip returns {success: false}: throw, catch, setIsEnding(false)
EndTripFailure ==
  /\ endPc = "submitting"
  /\ ui' = [ui EXCEPT !.isEnding = FALSE]
  /\ endPc' = "failed"
  /\ UNCHANGED <<gps, bgRunning, bgPc, acq, initPc, alert, loadedCoords,
                 storage, pendingWrites, api, appState, restarts,
                 sessionPath>>

\* await clearTripData()
ClearTripData ==
  /\ endPc = "clearTripData"
  /\ pendingWrites = <<>>
  /\ storage' = [storage EXCEPT !.tripData = 0]
  /\ endPc' = "clearCoordinates"
  /\ UNCHANGED <<gps, bgRunning, bgPc, acq, ui, initPc, alert, loadedCoords,
                 pendingWrites, api, appState, restarts, sessionPath>>

\* await clearCoordinates(), then the 'Trip Completed' dialog
ClearCoordinates ==
  /\ endPc = "clearCoordinates"
  /\ pendingWrites = <<>>
  /\ storage' = [storage EXCEPT !.coordinates = <<>>]
  /\ endPc' = "done"
  /\ UNCHANGED <<gps, bgRunning, bgPc, acq, ui, initPc, alert, loadedCoords,
                 pendingWrites, api, appState, restarts, sessionPath>>

(***************************************************************************)
(* AppState changes: the listener of GPSService.initialize and the         *)
(* listener of the screen, which calls loadTripState on a return to the    *)
(* foreground.                                                             *)
(***************************************************************************)
onAppStateChange(g, nextAppState) ==
  IF g.appStateSubscription THEN [g EXCEPT !.appState = nextAppState] ELSE g

AppToBackground ==
  /\ appState = "active"
  /\ ~loadedCoords.awaited
  /\ appState' = "background"
  /\ gps' = onAppStateChange(gps, "background")
  /\ UNCHANGED <<bgRunning, bgPc, acq, ui, initPc, endPc, alert,
                 loadedCoords, storage, pendingWrites, api, restarts,
                 sessionPath>>

\* return to the foreground; the screen calls loadTripState, whose
\* `await getCoordinates()` reads the array once the earlier writes are done
AppToForeground ==
  /\ appState = "background"
  /\ pendingWrites = <<>>
  /\ appState' = "active"
  /\ gps' = onAppStateChange(gps, "active")
  /\ loadedCoords' = [awaited |-> TRUE, savedCoords |-> storage.coordinates]
  /\ UNCHANGED <<bgRunning, bgPc, acq, ui, initPc, endPc, alert, storage,
                 pendingWrites, api, restarts, sessionPath>>

\* a reload that sets the coordinates and leaves the distance as it is
loadTripStateKeepsDistance ==
  /\ loadedCoords.awaited
  /\ LET savedCoords == loadedCoords.savedCoords
     IN ui' = IF Len(savedCoords) > 0
              THEN [ui EXCEPT !.coordinates = savedCoords]
              ELSE ui
  /\ loadedCoords' = NotLoading
  /\ UNCHANGED <<gps, bgRunning, bgPc, acq, initPc, endPc, alert, storage,
                 pendingWrites, api, appState, restarts, sessionPath>>

\* loadTripState after the await:
\* setCoordinates(savedCoords); setDistance(totalDist)
loadTripState ==
  /\ loadedCoords.awaited
  /\ LET savedCoords == loadedCoords.savedCoords
     IN ui' = IF Len(savedCoords) > 0
              THEN [ui EXCEPT !.coordinates = savedCoords,
                              !.distance = calculateTripDistance(savedCoords)]
              ELSE ui
  /\ loadedCoords' = NotLoading
  /\ UNCHANGED <<gps, bgRunning, bgPc, acq, initPc, endPc, alert, storage,
                 pendingWrites, api, appState, restarts, sessionPath>>

(***************************************************************************)
(* DashboardScreen.handleLogout, confirmed before the trip screen is       *)
(* opened: clearAllData removes the trip record and the coordinates; the   *)
(* rider then logs in again and opens the trip screen.                     *)
(***************************************************************************)
handleLogout ==
  /\ initPc = "getTripData"
  /\ pendingWrites = <<>>
  /\ storage.tripData # 0
  /\ storage' = [tripData |-> 0, coordinates |-> <<>>]
  /\ UNCHANGED <<gps, bgRunning, bgPc, acq, ui, initPc, endPc, alert,
                 loadedCoords, pendingWrites, api, appState, restarts,
                 sessionPath>>

(***************************************************************************)
(* The process is killed and the rider opens the trip screen again.        *)
(***************************************************************************)
Restart ==
  /\ restarts < MaxRestarts
  /\ restarts' = restarts + 1
  /\ gps' = GpsInit
  /\ bgRunning' = FALSE
  /\ bgPc' = "none"
  /\ acq' = AcqIdle
  /\ ui' = UiInit
  /\ initPc' = "getTripData"
  /\ endPc' = "none"
  /\ alert' = AlertNone
  /\ loadedCoords' = NotLoading
  /\ pendingWrites' = <<>>
  /\ appState' = "active"
  /\ sessionPath' = "none"
  /\ UNCHANGED <<storage, api>>

Next ==
  \/ SaveCoordinatesDone
  \/ SaveCoordinatesFails
  \/ GetTripData
  \/ ResumeTrip
  \/ StartTripSuccess
  \/ StartTripFailure
  \/ SaveTripData
  \/ ClearOldCoordinates
  \/ GpsInitialize
  \/ StartTracking
  \/ ProviderFix
  \/ ProviderError
  \/ LastLocationAges
  \/ BackgroundStartSuccess
  \/ BackgroundStartFailure
  \/ WatchFix
  \/ BackgroundTaskWakes
  \/ handleEndTrip
  \/ CancelEndTrip
  \/ EndTripConfirmed
  \/ BackgroundStopSuccess
  \/ BackgroundStopFailure
  \/ EndTripSuccess
  \/ EndTripFailure
  \/ ClearTripData
  \/ ClearCoordinates
  \/ AppToBackground
  \/ AppToForeground
  \/ loadTripState
  \/ handleLogout
  \/ Restart

Spec == Init /\ [][Next]_vars

\* the timer of backgroundTask's sleep fires: setTimeout(resolve, ms)
FairSpec == Spec /\ WF_vars(BackgroundTaskWakes)

(***************************************************************************)
(* One call of getCurrentLocationWithRetry(0, isBackground) on its own.    *)
(* The call starts in Foreground or Background mode, with no cached fix,   *)
(* a fresh one or a stale one; acq also keeps the requests issued with     *)
(* their options, the answers of the provider (0: a position, 1..4:        *)
(* error.code) and the result of the promise.                              *)
(***************************************************************************)
AcqInit ==
  /\ \E last \in {None} \cup Fixes, fresh \in BOOLEAN :
       /\ (last = None => ~fresh)
       /\ gps = [GpsInit EXCEPT !.isInitialized = TRUE,
                                !.lastLocation = last,
                                !.lastLocationFresh = fresh]
  /\ \E owner \in {"initial", "background"} :
       acq = [owner |-> owner, retryCount |-> 0, requests |-> 1,
              settings |-> <<settings(0, owner = "background")>>,
              answers |-> <<>>, result |-> "pending", location |-> None]
  /\ bgRunning = FALSE
  /\ bgPc = "none"
  /\ ui = UiInit
  /\ initPc = "initialFix"
  /\ endPc = "none"
  /\ alert = AlertNone
  /\ loadedCoords = NotLoading
  /\ storage = [tripData |-> 0, coordinates |-> <<>>]
  /\ pendingWrites = <<>>
  /\ api = [tripsStarted |-> 0, tripsEnded |-> 0]
  /\ appState = "active"
  /\ restarts = 0
  /\ sessionPath = "none"

\* Geolocation.getCurrentPosition succeeds: resolve(location)
AcqProviderFix ==
  /\ acq.result = "pending"
  /\ \E location \in Fixes :
       /\ gps' = [gps EXCEPT !.lastLocation = location,
                             !.lastLocationFresh = TRUE]
       /\ acq' = [acq EXCEPT !.answers = Append(@, 0),
                             !.result = "fix",
                             !.location = location]
  /\ UNCHANGED <<bgRunning, bgPc, ui, initPc, endPc, alert, loadedCoords,
                 storage, pendingWrites, api, appState, restarts,
                 sessionPath>>

\* Geolocation.getCurrentPosition fails with error.code
AcqProviderError ==
  /\ acq.result = "pending"
  /\ \E code \in 1..4 :
       LET outcome == onLocationError(code, acq.retryCount,
                                      acq.owner = "background", gps)
       IN acq' = IF outcome = "retry"
                 THEN [acq EXCEPT !.retryCount = @ + 1,
                                  !.requests = @ + 1,
                                  !.settings =
                                    Append(@, settings(acq.retryCount + 1,
                                                acq.owner = "background")),
                                  !.answers = Append(@, code)]
                 ELSE [acq EXCEPT !.answers = Append(@, code),
                                  !.result = outcome,
                                  !.location = IF outcome = "cached"
                                               THEN gps.lastLocation
                                               ELSE None]
  /\ UNCHANGED <<gps, bgRunning, bgPc, ui, initPc, endPc, alert,
                 loadedCoords, storage, pendingWrites, api, appState,
                 restarts, sessionPath>>

\* the cached fix grows older than 10 minutes while the call is pending
AcqLastLocationAges ==
  /\ acq.result = "pending"
  /\ LastLocationAges

AcqNext ==
  \/ AcqProviderFix
  \/ AcqProviderError
  \/ AcqLastLocationAges

\* every provider request is answered
AcqSpec ==
  /\ AcqInit
  /\ [][AcqNext]_vars
  /\ WF_vars(AcqProviderFix \/ AcqProviderError)

(***************************************************************************)
(* The pure functions on their own: calculateTripDistance applied to an    *)
(* array of coordinates, as loadTripState applies it to the array it has   *)
(* read, and the sleep that backgroundTask derives from the delay it is    *)
(* started with.  A coordinate of the array is null or has for latitude    *)
(* and longitude any value a JavaScript property can hold; bgPc keeps the  *)
(* delay of taskDataArguments and the local backgroundDelay.               *)
(***************************************************************************)
Coord(lat, lon) == [latitude |-> lat, longitude |-> lon, timestamp |-> 1]

Coordinates ==
  {Coord(0, 0), Coord(0, 1), Coord(0, 2), Coord(1, 1),
   Coord(91, 1), Coord(0, 181),
   Coord(NaN, 0), Coord(Infinity, 0), Coord(null, 0),
   None}

CoordinateArrays == UNION {[1..n -> Coordinates] : n \in 0..MaxCoords}

\* CONFIG.tracking.interval in steps of half the configured interval
Delays == {k * (GPS_TRACKING_INTERVAL \div 2) : k \in 0..MaxDelaySteps}

\* a sleep of twice the delay without the floor
backgroundDelayNoFloor(delay) == delay * 2

\* const backgroundDelay = Math.max(delay * 2, 120000)
backgroundDelay(delay) ==
  IF delay * 2 >= 120000 THEN delay * 2 ELSE 120000

CalcInit ==
  /\ \E savedCoords \in CoordinateArrays :
       loadedCoords = [awaited |-> TRUE, savedCoords |-> savedCoords]
  /\ \E delay \in Delays :
       bgPc = [pc |-> "start", delay |-> delay, backgroundDelay |-> 0]
  /\ gps = [GpsInit EXCEPT !.isInitialized = TRUE]
  /\ bgRunning = TRUE
  /\ acq = AcqIdle
  /\ ui = UiInit
  /\ initPc = "done"
  /\ endPc = "none"
  /\ alert = AlertNone
  /\ storage = [tripData |-> 0, coordinates |-> <<>>]
  /\ pendingWrites = <<>>
  /\ api = [tripsStarted |-> 0, tripsEnded |-> 0]
  /\ appState = "active"
  /\ restarts = 0
  /\ sessionPath = "none"

\* backgroundTask up to its loop
BackgroundTaskStarts ==
  /\ bgPc.pc = "start"
  /\ bgPc' = [bgPc EXCEPT !.pc = "loop",
                          !.backgroundDelay = backgroundDelay(bgPc.delay)]
  /\ UNCHANGED <<gps, bgRunning, acq, ui, initPc, endPc, alert, loadedCoords,
                 storage, pendingWrites, api, appState, restarts,
                 sessionPath>>

CalcNext ==
  \/ loadTripState
  \/ BackgroundTaskStarts

CalcSpec == CalcInit /\ [][CalcNext]_vars

(***************************************************************************)
(* Properties                                                              *)
(***************************************************************************)
Range(s) == {s[i] : i \in 1..Len(s)}
IsPrefix(s, t) == Len(s) <= Len(t) /\ \A i \in 1..Len(s) : s[i] = t[i]

\* stopTracking, called by endTripConfirmed, has returned
stopReturned ==
  endPc \in {"submitting", "clearTripData", "clearCoordinates", "done",
             "failed"}

\* C1: when stopTracking returns and endTripConfirmed builds its request, the
\* coordinate list of the request is the full sequence of the fixes ingested
\* up to then, in order.
C1_SubmitsFullLedger ==
  [][(endPc # "submitting" /\ endPc' = "submitting")
       => tripData'.coordinates = ui'.coordinates]_vars

\* C2: after a successful end-trip with a background task, every fix found
\* in the persisted ledger after the clear was part of the submission.
C2_NoUnsubmittedFixAfterClear ==
  (endPc = "done" /\ bgPc # "none") =>
    \A i \in 1..Len(storage.coordinates) :
      storage.coordinates[i] \in Range(tripData.coordinates)

\* C3: once stopTracking has returned, no fix is delivered to the location
\* callback any more (no ingestion, hence no new saveCoordinates).
C3_NoDeliveryAfterStop ==
  [][stopReturned /\ stopReturned'
       => Len(pendingWrites') <= Len(pendingWrites)]_vars

\* C4: the timestamps of the persisted ledger never decrease.
C4_LedgerTimestampsMonotonic ==
  \A i \in 1..(Len(storage.coordinates) - 1) :
    storage.coordinates[i].timestamp <= storage.coordinates[i + 1].timestamp

\* C5: without a clear, the fixes appended successfully are read back in
\* append order: a completed write keeps every fix persisted before it.
C5_AppendsAreReadBack ==
  [][storage'.coordinates # <<>>
       => IsPrefix(storage.coordinates, storage'.coordinates)]_vars

\* C6: a fix that is in the running coordinate sequence of a tracked trip is
\* in the persisted ledger, so that a crash right now does not lose it.
C6_IngestedFixIsDurable ==
  (sessionPath # "none" /\ endPc \in {"none", "alert"})
    => IsPrefix(ui.coordinates, storage.coordinates)

\* C7: a failed ledger write is surfaced: once no write is outstanding, a
\* screen that shows 'GPS Active' has every fix of its sequence persisted.
C7_PersistenceFailureSurfaced ==
  (pendingWrites = <<>> /\ ui.gpsStatus = "GPS Active")
    => IsPrefix(ui.coordinates, storage.coordinates)

C9_RetryAfterFailure ==
  endPc = "failed" => EndTripEnabled

\* C10: a session that found an active trip record re-enters Active with
\* the trip id of the record, the reloaded ledger and its recomputed
\* distance, and with the foreground watch and the background loop running.
C10_ResumeReentersActive ==
  sessionPath = "resume" =>
    /\ initPc \in {"initialize", "startTracking"}
         => /\ ui.tripId = storage.tripData
            /\ ui.coordinates = storage.coordinates
            /\ ui.distance = calculateTotalDistance(ui.coordinates)
    /\ (initPc = "done" /\ endPc = "none")
         => /\ ui.tripId = storage.tripData
            /\ ui.isTracking
            /\ gps.watchId
            /\ gps.locationCallback
            /\ bgRunning

\* C11: at every restart point of an active trip, the distance a resumed
\* session recomputes from the reloaded ledger equals the running distance
\* of the continuous session over the fixes ingested so far.
C11_ResumedDistanceEqualsContinuous ==
  [][(restarts' # restarts /\ storage.tripData # 0
        /\ initPc = "done" /\ endPc = "none")
       => calculateTripDistance(storage.coordinates) = ui.distance]_vars

\* C12: at most one trip of the rider is Active at the Trip API: a trip is
\* started only when every trip started before has been ended.
C12_AtMostOneActiveTrip ==
  api.tripsStarted - api.tripsEnded <= 1

\* the start of the session has failed: startTrip failed, or startTracking
\* returned false
startFailed ==
  \/ initPc = "failed"
  \/ (initPc = "done" /\ endPc = "none" /\ ~gps.isTracking)

\* C13: when the start of a new trip fails, the session is in Failed with
\* the error shown, no active trip record is persisted and neither the
\* foreground watch nor the background loop is running.
C13_StartFailureLeavesNothing ==
  (sessionPath = "new" /\ startFailed) =>
    /\ ui.gpsStatus = "GPS Error"
    /\ ~ui.isTracking
    /\ storage.tripData = 0
    /\ ~gps.watchId
    /\ ~bgRunning

\* the state of the session as the trip screen presents it
sessionState ==
  IF initPc = "getTripData" THEN "Idle"
  ELSE IF endPc = "done" THEN "Ended"
  ELSE IF initPc = "failed" \/ endPc = "failed" THEN "Failed"
  ELSE IF endPc \in {"stopping", "submitting", "clearTripData",
                     "clearCoordinates"} THEN "Ending"
  ELSE IF initPc = "done" THEN "Active"
  ELSE "Starting"

SessionOrder ==
  {<<"Idle", "Starting">>, <<"Starting", "Active">>, <<"Starting", "Failed">>,
   <<"Active", "Ending">>, <<"Ending", "Ended">>, <<"Ending", "Failed">>}

\* C14: within one process the session state moves only along
\* Idle -> Starting -> Active -> Ending -> Ended, with Failed entered only
\* from Starting or Ending; the End Trip dialog opens only in Active; and no
\* fix is ingested in Idle, Ended or Failed.
C14_SessionStateOrder ==
  [][restarts' = restarts =>
       /\ (sessionState' # sessionState
             => <<sessionState, sessionState'>> \in SessionOrder)
       /\ (endPc # "alert" /\ endPc' = "alert" => sessionState = "Active")
       /\ (sessionState \in {"Idle", "Ended", "Failed"}
             => Len(pendingWrites') <= Len(pendingWrites))]_vars

\* C15: every ingestion appends its fix exactly once to the newest
\* sequence and hands that sequence to the storage; and while the trip is
\* tracked, once no write is pending the persisted ledger equals the
\* in-memory sequence and the running distance is the total of it.
C15_IngestionSerialized ==
  /\ [][Len(pendingWrites') > Len(pendingWrites)
          => /\ Len(ui'.coordinates) = Len(ui.coordinates) + 1
             /\ IsPrefix(ui.coordinates, ui'.coordinates)
             /\ pendingWrites'[Len(pendingWrites')] = ui'.coordinates]_vars
  /\ []((/\ pendingWrites = <<>>
         /\ initPc \in {"initialFix", "backgroundStart", "done"}
         /\ endPc \in {"none", "alert"})
        => /\ storage.coordinates = ui.coordinates
           /\ ui.distance = calculateTotalDistance(ui.coordinates))

\* C16: one call of the acquisition issues at most maxRetries + 1 = 4
\* provider requests and, every request being answered, completes with a
\* fix or with a failure.
C16_AcquisitionBounded ==
  /\ [](acq.requests <= maxRetries + 1)
  /\ [](acq.result = "pending" => Len(acq.answers) + 1 = acq.requests)
  /\ <>(acq.result # "pending")

C16_Witness ==
  /\ acq.result # "pending"
  /\ acq.requests = maxRetries + 1
  /\ Len(acq.answers) = maxRetries + 1

\* C17: in Background mode a timeout that finds a cached fix younger than
\* 10 minutes makes the call return that fix at once, with no further
\* provider request, at whatever retry index the timeout occurs.
C17_BackgroundTimeoutReturnsCached ==
  [][(/\ acq.result = "pending"
      /\ acq.owner = "background"
      /\ gps.lastLocation # None
      /\ gps.lastLocationFresh
      /\ acq'.answers = Append(acq.answers, 3))
       => /\ acq'.result = "cached"
          /\ acq'.location = gps.lastLocation
          /\ acq'.requests = acq.requests]_vars

C17_Witness ==
  /\ acq.owner = "background"
  /\ acq.result = "cached"
  /\ acq.retryCount > 0
  /\ acq.answers[Len(acq.answers)] = 3
  /\ gps.lastLocationFresh

\* C18: a permission-denied answer makes the call fail at once with the
\* permission-denied failure, at any retry index: no further request is
\* issued and no cached fix is returned.
C18_PermissionDeniedFailsFast ==
  [][(acq.result = "pending" /\ acq'.answers = Append(acq.answers, 1))
       => /\ acq'.result = "denied"
          /\ acq'.location = None
          /\ acq'.requests = acq.requests]_vars

C18_Witness ==
  /\ acq.result = "denied"
  /\ acq.retryCount > 0
  /\ gps.lastLocation # None
  /\ gps.lastLocationFresh

\* C19: an unavailable answer to the first request makes the call fail at
\* once with the failure that asks to enable the location services: no
\* retry, no cached fix.
C19_UnavailableFirstAttemptFailsFast ==
  [][(acq.result = "pending" /\ acq'.answers = <<2>>)
       => /\ acq'.result = "disabled"
          /\ acq'.location = None
          /\ acq'.requests = 1]_vars

C19_Witness ==
  /\ acq.result = "disabled"
  /\ acq.answers = <<2>>
  /\ gps.lastLocation # None
  /\ gps.lastLocationFresh

\* a cached fix that may stand in for a fresh one: younger than 10 minutes
usableCached == gps.lastLocation # None /\ gps.lastLocationFresh

\* C20: a completed call has failed as Exhausted exactly when its fourth
\* request (attempt 0 and three retries, none answered with a position)
\* timed out and there is no usable cached fix; a cached fix of 10 minutes
\* or more is not usable.
C20_ExhaustedExactly ==
  acq.result # "pending" =>
    (acq.result = "exhausted"
       <=> (/\ acq.requests = maxRetries + 1
            /\ acq.answers[Len(acq.answers)] = 3
            /\ ~usableCached))

\* C21: the background loop is left only after BackgroundService was
\* stopped, and the service is stopped only by stopTracking; a cycle that
\* completes, with a fix or with any failure, goes to the sleep and leaves
\* the service, the watch and the trip as they are; and while the service
\* runs, the sleep is always followed by another acquisition.
C21_LoopEndsOnlyByStop ==
  /\ [][restarts' = restarts =>
          /\ (bgPc # "none" /\ bgPc' = "none" => ~bgRunning)
          /\ (bgRunning /\ ~bgRunning' => endPc = "stopping")
          /\ (acq.owner = "background" /\ acq'.owner = "none"
                => /\ bgPc' = "sleep"
                   /\ bgRunning' = bgRunning
                   /\ gps'.watchId = gps.watchId
                   /\ gps'.isTracking = gps.isTracking
                   /\ ui'.isTracking = ui.isTracking
                   /\ endPc' = endPc
                   /\ storage'.tripData = storage.tripData)]_vars
  /\ ((bgPc = "sleep" /\ bgRunning)
        ~> ((bgPc = "acquire" /\ acq.owner = "background") \/ ~bgRunning))

\* the first background cycle of a new trip has ended without a fix
C21_Witness ==
  /\ bgPc = "sleep"
  /\ bgRunning
  /\ gps.locationCallback
  /\ gps.lastLocation = Fix(1)
  /\ ui.coordinates = <<Fix(1)>>
  /\ storage.coordinates = <<Fix(1)>>
  /\ restarts = 0

\* C22: the background task issues an acquisition only while the trip is
\* Active and the app is not in the foreground.
C22_BackgroundOnlyWhenBackgrounded ==
  [][(acq.owner # "background" /\ acq'.owner = "background")
       => (appState' # "active" /\ sessionState' = "Active")]_vars

\* C23: a change of the app state between foreground and background leaves
\* the watch, the background loop, the tracking flags, the callback and the
\* persisted ledger as they are, and the reload it triggers on the way back
\* to the foreground removes no fix from the running sequence, from which
\* the ledger is rewritten at the next append.
C23_AppStateChangeKeepsTrip ==
  [][restarts' = restarts =>
       /\ (appState' # appState
             => /\ gps'.watchId = gps.watchId
                /\ gps'.isTracking = gps.isTracking
                /\ gps'.locationCallback = gps.locationCallback
                /\ bgRunning' = bgRunning
                /\ bgPc' = bgPc
                /\ ui' = ui
                /\ storage' = storage
                /\ pendingWrites' = pendingWrites)
       /\ (loadedCoords.awaited /\ ~loadedCoords'.awaited
             => /\ IsPrefix(ui.coordinates, ui'.coordinates)
                /\ storage' = storage
                /\ ui'.isTracking = ui.isTracking)]_vars

\* a fix as the data model defines it: finite, latitude in [-90, 90],
\* longitude in [-180, 180]
ValidFix(c) ==
  /\ c # None
  /\ IsFiniteNumber(c.latitude) /\ IsFiniteNumber(c.longitude)
  /\ c.latitude \in -90..90
  /\ c.longitude \in -180..180

\* calculateTripDistance has been applied to ui.coordinates
distanceComputed == ~loadedCoords.awaited /\ ui.coordinates # <<>>

Reverse(s) == [i \in 1..Len(s) |-> s[Len(s) + 1 - i]]

\* C24: for two fixes with the same latitude and the same longitude
\* calculateDistance returns 0 by its own return statement, before any
\* trigonometry, and a sequence of such fixes has the total 0.
C24_IdenticalFixesZero ==
  distanceComputed =>
    /\ \A i \in 1..(Len(ui.coordinates) - 1) :
         LET a == ui.coordinates[i]
             b == ui.coordinates[i + 1]
         IN (ValidFix(a) /\ a = b)
              => /\ distanceBranch(a, b) = "same"
                 /\ calculateDistance(a, b) = 0
    /\ ((\A i \in 1..Len(ui.coordinates) :
           ValidFix(ui.coordinates[i])
           /\ ui.coordinates[i] = ui.coordinates[1])
          => ui.distance = 0)

C24_Witness ==
  /\ distanceComputed
  /\ ui.coordinates = <<Coord(1, 1), Coord(1, 1), Coord(1, 1)>>
  /\ ui.distance = 0

\* C25: the total computed for a sequence is the total of the reversed
\* sequence, and the distance of every two neighbours is the same in both
\* directions, invalid coordinates included.
C25_DistanceSymmetric ==
  distanceComputed =>
    /\ ui.distance = calculateTotalDistance(Reverse(ui.coordinates))
    /\ \A i \in 1..(Len(ui.coordinates) - 1) :
         calculateDistance(ui.coordinates[i], ui.coordinates[i + 1])
           = calculateDistance(ui.coordinates[i + 1], ui.coordinates[i])

C25_Witness ==
  /\ distanceComputed
  /\ ui.coordinates = <<Coord(0, 0), Coord(1, 1), Coord(null, 0)>>
  /\ ui.distance = 15725

\* C26: for two neighbours of which one has a non-finite or out-of-range
\* coordinate calculateDistance returns null, and the total is a finite
\* number.
C26_InvalidInputUndefined ==
  distanceComputed =>
    /\ \A i \in 1..(Len(ui.coordinates) - 1) :
         LET a == ui.coordinates[i]
             b == ui.coordinates[i + 1]
         IN (~ValidFix(a) \/ ~ValidFix(b)) => calculateDistance(a, b) = null
    /\ IsFiniteNumber(ui.distance)

\* the sum of the unrounded distances of the neighbours from index i on
RECURSIVE SumUnroundedE4(_, _)
SumUnroundedE4(coordinates, i) ==
  IF i >= Len(coordinates) THEN 0
  ELSE HaversineE4(coordinates[i], coordinates[i + 1])
         + SumUnroundedE4(coordinates, i + 1)

\* C27: the total of a sequence of fixes is the sum of the unrounded
\* distances of the neighbours, rounded to two decimals once.
C27_RoundedOnceAtEnd ==
  (distanceComputed
   /\ \A i \in 1..Len(ui.coordinates) : ValidFix(ui.coordinates[i]))
    => ui.distance = Round2(SumUnroundedE4(ui.coordinates, 1))

\* C28: in every state, after an ingestion, a resume or a reload, the
\* running distance is the total of the in-memory coordinate sequence; and
\* the distance the End Trip dialog captured for the submission is the
\* total of the coordinates captured with it.
C28_RunningTotalIsTotal ==
  /\ ui.distance = calculateTotalDistance(ui.coordinates)
  /\ alert.distance = calculateTotalDistance(alert.coordinates)

\* a resumed session whose reloaded ledger was replaced by a shorter
\* snapshot on the return to the foreground
C28_Witness ==
  /\ sessionPath = "resume"
  /\ Len(storage.coordinates) = 2
  /\ Len(ui.coordinates) = 1
  /\ ui.distance = 0
  /\ appState = "active"
  /\ ~loadedCoords.awaited
  /\ endPc = "none"

\* the timeout of request i + 1 less the timeout of request i
timeoutStep(i) == acq.settings[i + 1].timeout - acq.settings[i].timeout

\* the profile of the requests of one call, apart from the size of the
\* timeout steps: strictly growing timeouts, cache ages that never shrink,
\* no high accuracy from the second retry on, and in Background mode a
\* timeout and a cache age not below those of Foreground mode
profileOrdered ==
  /\ \A i \in 1..(Len(acq.settings) - 1) :
       /\ timeoutStep(i) > 0
       /\ acq.settings[i + 1].maximumAge >= acq.settings[i].maximumAge
  /\ \A i \in 1..Len(acq.settings) :
       /\ i > 2 => ~acq.settings[i].enableHighAccuracy
       /\ acq.owner = "background"
            => /\ acq.settings[i].timeout >= settings(i - 1, FALSE).timeout
               /\ acq.settings[i].maximumAge
                    >= settings(i - 1, FALSE).maximumAge

\* C29: the requests of one call have strictly growing timeouts that grow
\* by one fixed increment per retry, cache ages that never shrink, no high
\* accuracy after the first retry, and in Background mode a timeout and a
\* cache age not below the Foreground ones.
C29_RetryProfile ==
  /\ profileOrdered
  /\ \A i, j \in 1..(Len(acq.settings) - 1) : timeoutStep(i) = timeoutStep(j)

\* C29 as amended: the timeout grows by one fixed increment per retry from
\* the first retry on; the step from attempt 0 to the first retry is larger.
C29_RetryProfileAmended ==
  /\ profileOrdered
  /\ \A i, j \in 2..(Len(acq.settings) - 1) : timeoutStep(i) = timeoutStep(j)
  /\ \A i \in 2..(Len(acq.settings) - 1) : timeoutStep(1) > timeoutStep(i)

C29_Witness ==
  /\ acq.owner = "background"
  /\ Len(acq.settings) = maxRetries + 1
  /\ timeoutStep(1) = 30000
  /\ timeoutStep(2) = 15000
  /\ timeoutStep(3) = 15000

\* C30: the sleep of the background loop is the larger of twice the delay
\* the task was started with and 120000 ms: never below 2 minutes, never
\* below twice the delay, and one of the two.
C30_SleepIsDoubleWithFloor ==
  bgPc.pc = "loop" =>
    /\ bgPc.backgroundDelay >= 120000
    /\ bgPc.backgroundDelay >= 2 * bgPc.delay
    /\ bgPc.backgroundDelay \in {2 * bgPc.delay, 120000}

\* the floor decides: a delay of 30 s gives a sleep of 2 minutes
C30_Witness ==
  /\ bgPc.pc = "loop"
  /\ bgPc.delay = 30000
  /\ bgPc.backgroundDelay = 120000

(***************************************************************************)
(* GPSService on its own, under any callers: startTracking is called up to *)
(* MaxStarts times and stopTracking up to MaxStops times, and a call may   *)
(* begin while earlier calls still await.  Here                            *)
(*   initPc[c]  is the position of the c-th call of startTracking,         *)
(*   endPc[s]   the position of the s-th call of stopTracking,             *)
(*   acq[c]     the acquisition awaited by call c, then by the background  *)
(*              task that call c started,                                  *)
(*   bgPc[c]    the position of the backgroundTask started by call c,      *)
(*   api        the watch ids registered at Geolocation,                   *)
(*   ui         the callbacks (by the call that passed them) that have     *)
(*              received a fix,                                            *)
(*   alert      the titles of the dialogs shown with Alert.alert.          *)
(* Call c passes the callback c; the watch it registers has the id c.      *)
(***************************************************************************)
Starts == 1..MaxStarts
Stops == 1..MaxStops

\* GPSService constructor: locationCallback = null, watchId = null
TrackGpsInit == [GpsInit EXCEPT !.locationCallback = null, !.watchId = null]

TrackAcqIdle == [owner |-> "none", retryCount |-> 0, result |-> "none"]

TrackInit ==
  /\ gps = TrackGpsInit
  /\ bgRunning = FALSE
  /\ bgPc = [c \in Starts |-> "none"]
  /\ acq = [c \in Starts |-> TrackAcqIdle]
  /\ ui = {}
  /\ initPc = [c \in Starts |-> "idle"]
  /\ endPc = [s \in Stops |-> "idle"]
  /\ alert = <<>>
  /\ api = {}
  /\ loadedCoords = NotLoading
  /\ storage = [tripData |-> 0, coordinates |-> <<>>]
  /\ pendingWrites = <<>>
  /\ appState = "active"
  /\ restarts = 0
  /\ sessionPath = "none"

\* the dialog initialize shows when it returns false
initializeAlert(g, outcome) ==
  IF g.isInitialized THEN <<>>
  ELSE CASE outcome = "permission" -> <<"Permission Required">>
         [] outcome = "disabled" -> <<"Location Services Disabled">>
         [] OTHER -> <<>>

\* a startTracking that stores the callback before it looks at isTracking
TrackStartTrackingCallbackFirst(c) ==
  /\ initPc[c] = "idle"
  /\ \E outcome \in {"ok", "permission", "disabled", "throws"} :
       LET g == initialize(gps, outcome = "ok")
       IN /\ alert' = alert \o initializeAlert(gps, outcome)
          /\ IF ~g.isInitialized
             THEN /\ gps' = [g EXCEPT !.isTracking = FALSE]
                  /\ initPc' = [initPc EXCEPT ![c] = "false"]
                  /\ acq' = acq
             ELSE IF g.isTracking
             THEN /\ gps' = [g EXCEPT !.locationCallback = c]
                  /\ initPc' = [initPc EXCEPT ![c] = "true"]
                  /\ acq' = acq
             ELSE /\ gps' = [g EXCEPT !.locationCallback = c]
                  /\ initPc' = [initPc EXCEPT ![c] = "initialFix"]
                  /\ acq' = [acq EXCEPT ![c] = [owner |-> "initial",
                                                retryCount |-> 0,
                                                result |-> "pending"]]
  /\ UNCHANGED <<bgRunning, bgPc, ui, endPc, loadedCoords, storage,
                 pendingWrites, api, appState, restarts, sessionPath>>

\* startTracking up to `await this.getCurrentLocationWithRetry(0, false)`
TrackStartTracking(c) ==
  /\ initPc[c] = "idle"
  /\ \E outcome \in {"ok", "permission", "disabled", "throws"} :
       LET g == initialize(gps, outcome = "ok")
       IN /\ alert' = alert \o initializeAlert(gps, outcome)
          /\ IF ~g.isInitialized
             THEN \* throw 'Failed to initialize GPS service'; catch
                  /\ gps' = [g EXCEPT !.isTracking = FALSE]
                  /\ initPc' = [initPc EXCEPT ![c] = "false"]
                  /\ acq' = acq
             ELSE IF g.isTracking
             THEN \* 'GPS tracking is already active'
                  /\ gps' = g
                  /\ initPc' = [initPc EXCEPT ![c] = "true"]
                  /\ acq' = acq
             ELSE /\ gps' = [g EXCEPT !.locationCallback = c]
                  /\ initPc' = [initPc EXCEPT ![c] = "initialFix"]
                  /\ acq' = [acq EXCEPT ![c] = [owner |-> "initial",
                                                retryCount |-> 0,
                                                result |-> "pending"]]
  /\ UNCHANGED <<bgRunning, bgPc, ui, endPc, loadedCoords, storage,
                 pendingWrites, api, appState, restarts, sessionPath>>

\* if (this.locationCallback && location) this.locationCallback(location)
TrackInvokeCallback(g) ==
  ui' = IF g.locationCallback # null THEN ui \cup {g.locationCallback} ELSE ui

\* the promise of call c resolves; g is the service after the callback of
\* getCurrentPosition
TrackResolves(c, g, result) ==
  /\ acq' = [acq EXCEPT ![c].result = result]
  /\ TrackInvokeCallback(g)
  /\ alert' = alert
  /\ IF acq[c].owner = "initial"
     THEN \* startTracking: this.watchId = Geolocation.watchPosition(...)
          /\ gps' = [g EXCEPT !.watchId = c]
          /\ api' = api \cup {c}
          /\ initPc' = [initPc EXCEPT ![c] = "backgroundStart"]
          /\ bgPc' = bgPc
     ELSE \* backgroundTask: await this.sleep(backgroundDelay)
          /\ gps' = g
          /\ api' = api
          /\ initPc' = initPc
          /\ bgPc' = [bgPc EXCEPT ![c] = "sleep"]

\* the dialog startTracking shows for a rejected initial fix
initialFixAlert(outcome) ==
  CASE outcome = "disabled" -> "Location Services Disabled"
    [] outcome = "denied" -> "Permission Required"
    [] OTHER -> "GPS Error"

\* the promise of call c rejects
TrackRejects(c, outcome) ==
  /\ acq' = [acq EXCEPT ![c].result = outcome]
  /\ ui' = ui
  /\ api' = api
  /\ IF acq[c].owner = "initial"
     THEN \* startTracking: dialog, throw error, catch: return false
          /\ alert' = Append(alert, initialFixAlert(outcome))
          /\ gps' = [gps EXCEPT !.isTracking = FALSE]
          /\ initPc' = [initPc EXCEPT ![c] = "false"]
          /\ bgPc' = bgPc
     ELSE \* backgroundTask: console.error, then sleep
          /\ alert' = alert
          /\ gps' = gps
          /\ initPc' = initPc
          /\ bgPc' = [bgPc EXCEPT ![c] = "sleep"]

TrackProviderFix(c) ==
  /\ acq[c].result = "pending"
  /\ \E location \in Fixes :
       TrackResolves(c, [gps EXCEPT !.lastLocation = location,
                                    !.lastLocationFresh = TRUE], "fix")
  /\ UNCHANGED <<bgRunning, endPc, loadedCoords, storage, pendingWrites,
                 appState, restarts, sessionPath>>

TrackProviderError(c) ==
  /\ acq[c].result = "pending"
  /\ \E code \in 1..4 :
       LET outcome == onLocationError(code, acq[c].retryCount,
                                      acq[c].owner = "background", gps)
       IN CASE outcome = "cached" -> TrackResolves(c, gps, "cached")
            [] outcome = "retry" ->
                 /\ acq' = [acq EXCEPT ![c].retryCount = @ + 1]
                 /\ UNCHANGED <<gps, ui, initPc, bgPc, alert, api>>
            [] OTHER -> TrackRejects(c, outcome)
  /\ UNCHANGED <<bgRunning, endPc, loadedCoords, storage, pendingWrites,
                 appState, restarts, sessionPath>>

\* await BackgroundService.start(this.backgroundTask, options) resolves and
\* the task runs; backgroundTaskRunning = true, isTracking = true, return true
TrackBackgroundStartSuccess(c) ==
  /\ initPc[c] = "backgroundStart"
  /\ bgRunning' = TRUE
  /\ bgPc' = [bgPc EXCEPT ![c] = "acquire"]
  /\ acq' = [acq EXCEPT ![c] = [owner |-> "background", retryCount |-> 0,
                                result |-> "pending"]]
  /\ gps' = [gps EXCEPT !.backgroundTaskRunning = TRUE, !.isTracking = TRUE]
  /\ initPc' = [initPc EXCEPT ![c] = "true"]
  /\ UNCHANGED <<ui, endPc, alert, loadedCoords, storage, pendingWrites,
                 api, appState, restarts, sessionPath>>

\* BackgroundService.start rejects: catch, isTracking = false, return false
TrackBackgroundStartFailure(c) ==
  /\ initPc[c] = "backgroundStart"
  /\ gps' = [gps EXCEPT !.isTracking = FALSE]
  /\ initPc' = [initPc EXCEPT ![c] = "false"]
  /\ UNCHANGED <<bgRunning, bgPc, acq, ui, endPc, alert, loadedCoords,
                 storage, pendingWrites, api, appState, restarts,
                 sessionPath>>

\* the callback of the watch w registered with Geolocation.watchPosition
TrackWatchFix(w) ==
  /\ w \in api
  /\ \E location \in Fixes :
       LET g == [gps EXCEPT !.lastLocation = location,
                            !.lastLocationFresh = TRUE]
       IN /\ TrackInvokeCallback(g)
          /\ gps' = g
  /\ UNCHANGED <<bgRunning, bgPc, acq, initPc, endPc, alert, loadedCoords,
                 storage, pendingWrites, api, appState, restarts,
                 sessionPath>>

\* backgroundTask after the sleep: while (BackgroundService.isRunning())
TrackBackgroundTaskWakes(c) ==
  /\ bgPc[c] = "sleep"
  /\ IF bgRunning
     THEN /\ bgPc' = [bgPc EXCEPT ![c] = "acquire"]
          /\ acq' = [acq EXCEPT ![c] = [owner |-> "background",
                                        retryCount |-> 0,
                                        result |-> "pending"]]
     ELSE /\ bgPc' = [bgPc EXCEPT ![c] = "none"]
          /\ acq' = acq
  /\ UNCHANGED <<gps, bgRunning, ui, initPc, endPc, alert, loadedCoords,
                 storage, pendingWrites, api, appState, restarts,
                 sessionPath>>

\* stopTracking up to `await BackgroundService.stop()`
TrackStopTracking(s) ==
  /\ endPc[s] = "idle"
  /\ IF ~gps.isTracking
     THEN \* 'GPS tracking is not active'
          /\ endPc' = [endPc EXCEPT ![s] = "true"]
          /\ UNCHANGED <<gps, api>>
     ELSE /\ api' = api \ {gps.watchId}
          /\ IF gps.backgroundTaskRunning
             THEN /\ gps' = [gps EXCEPT !.watchId = null]
                  /\ endPc' = [endPc EXCEPT ![s] = "stopping"]
             ELSE /\ gps' = [gps EXCEPT !.watchId = null,
                                        !.locationCallback = null,
                                        !.isTracking = FALSE]
                  /\ endPc' = [endPc EXCEPT ![s] = "true"]
  /\ UNCHANGED <<bgRunning, bgPc, acq, ui, initPc, alert, loadedCoords,
                 storage, pendingWrites, appState, restarts, sessionPath>>

\* BackgroundService.stop resolves: backgroundTaskRunning = false,
\* locationCallback = null, isTracking = false, return true
TrackBackgroundStopSuccess(s) ==
  /\ endPc[s] = "stopping"
  /\ bgRunning' = FALSE
  /\ gps' = [gps EXCEPT !.backgroundTaskRunning = FALSE,
                        !.locationCallback = null,
                        !.isTracking = FALSE]
  /\ endPc' = [endPc EXCEPT ![s] = "true"]
  /\ UNCHANGED <<bgPc, acq, ui, initPc, alert, loadedCoords, storage,
                 pendingWrites, api, appState, restarts, sessionPath>>

\* BackgroundService.stop rejects: catch, return false
TrackBackgroundStopFailure(s) ==
  /\ endPc[s] = "stopping"
  /\ endPc' = [endPc EXCEPT ![s] = "false"]
  /\ UNCHANGED <<gps, bgRunning, bgPc, acq, ui, initPc, alert, loadedCoords,
                 storage, pendingWrites, api, appState, restarts,
                 sessionPath>>

TrackNext ==
  \/ \E c \in Starts : TrackStartTracking(c)
  \/ \E c \in Starts : TrackProviderFix(c)
  \/ \E c \in Starts : TrackProviderError(c)
  \/ LastLocationAges
  \/ \E c \in Starts : TrackBackgroundStartSuccess(c)
  \/ \E c \in Starts : TrackBackgroundStartFailure(c)
  \/ \E w \in Starts : TrackWatchFix(w)
  \/ \E c \in Starts : TrackBackgroundTaskWakes(c)
  \/ \E s \in Stops : TrackStopTracking(s)
  \/ \E s \in Stops : TrackBackgroundStopSuccess(s)
  \/ \E s \in Stops : TrackBackgroundStopFailure(s)

TrackSpec == TrackInit /\ [][TrackNext]_vars

\* C31: whenever an acquisition fails with PermissionDenied or
\* LocationServicesDisabled, be it the initial acquisition of startTracking
\* or the acquisition of a background cycle, the permission or settings
\* dialog is shown in that step, and the caller goes on without an answer
\* (startTracking returns, the background task goes to sleep).
C31_FailurePrompts ==
  [][\A c \in Starts :
       (acq[c].result = "pending" /\ acq'[c].result \in {"denied", "disabled"})
         => /\ Len(alert') = Len(alert) + 1
            /\ alert'[Len(alert')] = initialFixAlert(acq'[c].result)
            /\ alert'[Len(alert')] # "GPS Error"
            /\ (initPc'[c] = "false" \/ bgPc'[c] = "sleep")]_vars

\* C32: a call returns the cached fix only after a timeout, and then only
\* in Background mode with a cache younger than 10 minutes or, in either
\* mode, at the retry ceiling; never after a denied permission, an
\* unavailable provider or an unknown error, and in Foreground mode only
\* when attempt 0 and all three retries were made.
C32_CachedOnlyAfterTimeout ==
  acq.result = "cached" =>
    /\ acq.location = gps.lastLocation
    /\ acq.location # None
    /\ acq.answers[Len(acq.answers)] = 3
    /\ \/ acq.owner = "background" /\ gps.lastLocationFresh
       \/ acq.retryCount = maxRetries
    /\ (acq.owner = "initial"
          => /\ acq.retryCount = maxRetries
             /\ acq.requests = maxRetries + 1)

C32_Witness ==
  /\ acq.result = "cached"
  /\ acq.owner = "initial"
  /\ acq.requests = maxRetries + 1
  /\ gps.lastLocationFresh

\* C33: at any time at most one foreground watch is registered and at most
\* one background task is running, whatever the sequence and the overlap of
\* the calls of startTracking and stopTracking.
C33_AtMostOneProducerEach ==
  /\ Cardinality(api) <= 1
  /\ Cardinality({c \in Starts : bgPc[c] # "none"}) <= 1

\* no call of startTracking or stopTracking is in flight
trackQuiescent ==
  /\ \A c \in Starts : initPc[c] \in {"idle", "true", "false"}
  /\ \A s \in Stops : endPc[s] \in {"idle", "true", "false"}

\* a producer can still invoke the callback of the service
callbackInvocable ==
  /\ gps.locationCallback # null
  /\ (api # {} \/ \E c \in Starts : bgPc[c] = "acquire")

\* C34: whenever the calls of startTracking and stopTracking have returned,
\* also by their throwing paths, isTracking = false implies that no watch
\* is registered, BackgroundService is not running and nothing can invoke
\* the callback; so a stopTracking that returns true leaves no producer.
C34_NotTrackingMeansNoProducer ==
  /\ []((trackQuiescent /\ ~gps.isTracking)
          => (api = {} /\ ~bgRunning /\ ~callbackInvocable))
  /\ [][\A s \in Stops :
          (endPc[s] # "true" /\ endPc'[s] = "true")
            => (api' = {} /\ ~bgRunning' /\ ~callbackInvocable')]_vars

\* C35: a startTracking called while the service is tracking returns true
\* and changes nothing (the callback passed is not stored), and a
\* stopTracking called while the service is not tracking returns true and
\* changes nothing.
C35_RedundantCallsChangeNothing ==
  [][/\ \A c \in Starts :
          (initPc[c] = "idle" /\ initPc'[c] # "idle" /\ gps.isTracking)
            => /\ initPc' = [initPc EXCEPT ![c] = "true"]
               /\ UNCHANGED <<gps, bgRunning, bgPc, acq, ui, endPc, alert,
                              api>>
     /\ \A s \in Stops :
          (endPc[s] = "idle" /\ endPc'[s] # "idle" /\ ~gps.isTracking)
            => /\ endPc' = [endPc EXCEPT ![s] = "true"]
               /\ UNCHANGED <<gps, bgRunning, bgPc, acq, ui, initPc, alert,
                              api>>]_vars

C35_Witness ==
  /\ \E c \in Starts : initPc[c] = "true" /\ acq[c] = TrackAcqIdle
  /\ \E s \in Stops : endPc[s] = "true" /\ bgRunning

\* C36: the screen reports tracking as active (isTracking true, the status
\* 'GPS Active', End Trip enabled) only if gpsService.startTracking has
\* succeeded: the service is tracking, with its watch registered and its
\* background task started.
C36_ReportedOnlyIfStarted ==
  (ui.isTracking /\ ui.gpsStatus = "GPS Active" /\ EndTripEnabled)
    => /\ gps.isTracking
       /\ gps.watchId
       /\ gps.backgroundTaskRunning
       /\ bgRunning

\* the trip is tracked: startTracking was called and End Trip not confirmed
tripActive ==
  /\ initPc \in {"initialFix", "backgroundStart", "done"}
  /\ endPc \in {"none", "alert"}

\* C37: no fix is lost by a return to the foreground: however loadTripState
\* interleaves with the ingestion, while the trip is Active the persisted
\* ledger only grows by appending, so every fix once persisted stays in it.
C37_LedgerOnlyAppendsWhileActive ==
  [][(tripActive /\ tripActive')
       => IsPrefix(storage.coordinates, storage'.coordinates)]_vars

(***************************************************************************)
(* The trip after an earlier one.  The process is launched with the        *)
(* storage an ended trip leaves behind: no trip record and either no       *)
(* coordinates or, when the process was killed between clearTripData and   *)
(* clearCoordinates of endTripConfirmed, the coordinates of that trip.     *)
(* The fix of the earlier trip is older than every fix of the new one.     *)
(***************************************************************************)
earlierFix == Fix(0)

LedgerInit ==
  /\ FreshProcess
  /\ \E left \in {<<>>, <<earlierFix>>} :
       storage = [tripData |-> 0, coordinates |-> left]
  /\ api = [tripsStarted |-> 1, tripsEnded |-> 1]
  /\ restarts = 0

LedgerSpec == LedgerInit /\ [][Next]_vars

\* C38: the ledger of an Active trip holds only fixes ingested during that
\* trip: wherever the process was killed between the storage writes of the
\* start and of the end, a session that has started or resumed a trip has
\* no fix of an earlier trip in its ledger or in its sequence.
C38_LedgerOnlyOwnFixes ==
  (/\ initPc \in {"initialize", "startTracking", "initialFix",
                  "backgroundStart", "done"}
   /\ ui.tripId # 0)
    => /\ earlierFix \notin Range(storage.coordinates)
       /\ earlierFix \notin Range(ui.coordinates)

(***************************************************************************)
(* appendCoordinate of the storage module, called up to MaxAppends times   *)
(* with calls that may overlap.  loadedCoords[k] is the k-th call: its     *)
(* position, its argument, the array its `await getCoordinates()` gave     *)
(* and the value it returned.                                              *)
(***************************************************************************)
Appends == 1..MaxAppends

AppendInit ==
  /\ \E coords \in [Appends -> Fixes \cup {None}] :
       loadedCoords = [k \in Appends |->
                         [pc |-> "called", coord |-> coords[k],
                          existingCoords |-> <<>>, returned |-> "pending"]]
  /\ \E stored \in {<<>>, <<Fix(1)>>} :
       storage = [tripData |-> 0, coordinates |-> stored]
  /\ gps = GpsInit
  /\ bgRunning = FALSE
  /\ bgPc = "none"
  /\ acq = AcqIdle
  /\ ui = UiInit
  /\ initPc = "none"
  /\ endPc = "none"
  /\ alert = AlertNone
  /\ pendingWrites = <<>>
  /\ api = [tripsStarted |-> 0, tripsEnded |-> 0]
  /\ appState = "active"
  /\ restarts = 0
  /\ sessionPath = "none"

\* if (!coord) return false; otherwise getCoordinates is called
AppendCalled(k) ==
  /\ loadedCoords[k].pc = "called"
  /\ loadedCoords' =
       IF loadedCoords[k].coord = None
       THEN [loadedCoords EXCEPT ![k].pc = "done", ![k].returned = "false"]
       ELSE [loadedCoords EXCEPT ![k].pc = "getCoordinates"]
  /\ UNCHANGED <<gps, bgRunning, bgPc, acq, ui, initPc, endPc, alert,
                 storage, pendingWrites, api, appState, restarts,
                 sessionPath>>

\* const existingCoords = await getCoordinates(): the stored array, or []
\* when getItem rejects
AppendGetCoordinates(k) ==
  /\ loadedCoords[k].pc = "getCoordinates"
  /\ \E read \in {storage.coordinates, <<>>} :
       loadedCoords' = [loadedCoords EXCEPT ![k].pc = "setItem",
                                            ![k].existingCoords = read]
  /\ UNCHANGED <<gps, bgRunning, bgPc, acq, ui, initPc, endPc, alert,
                 storage, pendingWrites, api, appState, restarts,
                 sessionPath>>

\* await AsyncStorage.setItem(COORDINATES, [...existingCoords, coord])
\* resolves: return true
AppendSetItem(k) ==
  /\ loadedCoords[k].pc = "setItem"
  /\ storage' = [storage EXCEPT !.coordinates =
                   Append(loadedCoords[k].existingCoords,
                          loadedCoords[k].coord)]
  /\ loadedCoords' = [loadedCoords EXCEPT ![k].pc = "done",
                                          ![k].returned = "true"]
  /\ UNCHANGED <<gps, bgRunning, bgPc, acq, ui, initPc, endPc, alert,
                 pendingWrites, api, appState, restarts, sessionPath>>

\* setItem rejects: catch, return false
AppendSetItemFails(k) ==
  /\ loadedCoords[k].pc = "setItem"
  /\ loadedCoords' = [loadedCoords EXCEPT ![k].pc = "done",
                                          ![k].returned = "false"]
  /\ UNCHANGED <<gps, bgRunning, bgPc, acq, ui, initPc, endPc, alert,
                 storage, pendingWrites, api, appState, restarts,
                 sessionPath>>

AppendNext ==
  \/ \E k \in Appends : AppendCalled(k)
  \/ \E k \in Appends : AppendGetCoordinates(k)
  \/ \E k \in Appends : AppendSetItem(k)
  \/ \E k \in Appends : AppendSetItemFails(k)

AppendSpec == AppendInit /\ [][AppendNext]_vars

\* how often the coordinate v occurs in the array
Occurrences(array, v) ==
  Cardinality({i \in 1..Len(array) : array[i] = v})

\* C39: when the calls of appendCoordinate, overlapping or not, have all
\* returned true, the stored array holds the coordinate of each of them:
\* no successful append is overwritten by another.
C39_OverlappingAppendsBothStored ==
  (\A k \in Appends : loadedCoords[k].returned = "true")
    => \A k \in Appends :
         Occurrences(storage.coordinates, loadedCoords[k].coord)
           >= Cardinality({j \in Appends :
                             loadedCoords[j].coord = loadedCoords[k].coord})

====
